---- MODULE Spec2Model ----
(***************************************************************************)
(* Model of pydantic/plugin/schema_validator.py: the _Plug dispatcher      *)
(* (enter / target / on_success / on_error) and its run_once reentrancy    *)
(* guard over the class-wide set _Plug._in_call.                           *)
(*                                                                         *)
(* The validators are constructed (Init: one validator and one thread;     *)
(* InitValidators: two validators; InitThreads: two threads); their wrapped*)
(* entry points are then called, at top level or from inside a running     *)
(* callback (a nested call).  Every frame of a wrapped call keeps a log of *)
(* what it invoked, which is what the properties below are stated over.    *)
(***************************************************************************)
EXTENDS Naturals, Sequences, FiniteSets

VARIABLES
    plugins,    \* self.plugins of the _Plug, in its iteration order
    wrapped,    \* per entry point: the three callback lists closed over by wrapper
    in_call,    \* _Plug._in_call: the class-wide set of callback keys
    threads,    \* the threads that make wrapped calls
    validators, \* the PluggableSchemaValidator instances constructed
    stack,      \* per thread: the frames of its wrapped calls, outermost first
    ncalls,     \* the number of wrapped calls made so far
    prevNI,     \* history: keys whose callback raised NotImplementedError in the
                \* previous finished top-level call
    prevRe      \* history: keys that were in flight, re-entered and skipped in the
                \* previous finished top-level call

vars == <<plugins, wrapped, in_call, threads, validators, stack, ncalls, prevNI, prevRe>>

\* ------------------------------------------------------------------ bounds

\* Deepest nesting of wrapped calls (a callback calling a wrapped entry point).
MaxDepth == 2

\* Wrapped calls, top-level and nested, made in one run.
MaxCalls == 3

ThreadIds == {1, 2}

\* The PluggableSchemaValidator instances that can be constructed.
\* create_schema_validator builds each of them over the same installed plugins,
\* so their wrappers close over callbacks of the same classes (wrapped), and
\* their _Plug instances share the class attribute _in_call.
ValidatorIds == {"v1", "v2"}

\* ------------------------------------------------------- the plugin world

\* _Plug.EVENTS: wrapped function name -> plugin attribute name.
EVENTS == [validate_json |-> "on_validate_json", validate_python |-> "on_validate_python"]

Funcs == DOMAIN EVENTS

Slots == {"enter", "on_success", "on_error"}

\* The step classes plugins return, each with the callback slots it defines.
StepSlots ==
    [ EnterOk |-> {"enter", "on_success"},
      ErrOnly |-> {"on_error"},
      OkOnly  |-> {"on_success"},
      Full    |-> {"enter", "on_success", "on_error"} ]

StepTypes == DOMAIN StepSlots

\* What getattr(plugin, step) gives: a step class, no such attribute, or a
\* factory whose call raises TypeError.
Absent == "<absent>"
BadCtor == "<TypeError>"

\* The plugin objects that can be installed.
PluginAttrs ==
    [ A |-> [on_validate_json |-> "EnterOk", on_validate_python |-> "EnterOk"],
      B |-> [on_validate_json |-> "ErrOnly", on_validate_python |-> "ErrOnly"],
      C |-> [on_validate_json |-> "Full",    on_validate_python |-> "Full"],
      D |-> [on_validate_json |-> "Full",    on_validate_python |-> Absent],
      E |-> [on_validate_json |-> BadCtor,   on_validate_python |-> "OkOnly"] ]

\* The installed plugin sets, each in an iteration order of the set.
Installed ==
    { << >>, <<"E">>, <<"A", "B">>, <<"C", "D">>, <<"E", "C">>, <<"C", "E">> }

\* ----------------------------------------------------------------- engine

Inputs == {"good", "bad", "crash"}

None == "None"
ValidationError == "ValidationError"

\* The wrapped SchemaValidator method: returns the validated value, raises
\* ValidationError, or raises something else.
Engine(func, input) ==
    CASE input = "good"  -> [kind |-> "return", val |-> "value"]
      [] input = "bad"   -> [kind |-> "raise",  val |-> ValidationError]
      [] input = "crash" -> [kind |-> "raise",  val |-> "EngineError"]

\* What a callback body may raise.
CallbackExceptions == {"NotImplementedError", "RuntimeError"}

\* ------------------------------------------------------------ gather_calls

\* One plugin's contribution to gather_calls: the bound method
\* getattr(step_type(...), callback_type), or nothing when getattr or the
\* constructor raises AttributeError/TypeError.  The record names the plugin,
\* the entry point and the slot this call of gather_calls built the step for,
\* and the step's class.
PluginCalls(plugin, func, callback_type) ==
    LET step_type == PluginAttrs[plugin][EVENTS[func]]
    IN  IF step_type \in StepTypes /\ callback_type \in StepSlots[step_type]
        THEN << [plugin |-> plugin, func |-> func, cls |-> step_type, slot |-> callback_type] >>
        ELSE << >>

\* GatherFrom with contextlib.suppress around the for loop instead of inside
\* it: the first observer that fails ends the collection.
RECURSIVE GatherFrom_SuppressOutside(_, _, _)
GatherFrom_SuppressOutside(ps, func, callback_type) ==
    IF ps = << >> THEN << >>
    ELSE IF PluginCalls(Head(ps), func, callback_type) = << >> THEN << >>
    ELSE PluginCalls(Head(ps), func, callback_type)
            \o GatherFrom_SuppressOutside(Tail(ps), func, callback_type)

\* gather_calls, lines 103-107: the loop over self.plugins.
RECURSIVE GatherFrom(_, _, _)
GatherFrom(ps, func, callback_type) ==
    IF ps = << >> THEN << >>
    ELSE PluginCalls(Head(ps), func, callback_type)
            \o GatherFrom(Tail(ps), func, callback_type)

gather_calls(ps, func, callback_type) == GatherFrom(ps, func, callback_type)

\* The step object a callback of validator self is bound to: gather_calls runs
\* once per entry point and slot when the validator is constructed, and each
\* run constructs one step per observer and keeps one bound method of it.
StepInstance(self, cb) == <<self, cb.plugin, cb.func, cb.slot>>

\* _Plug.__call__: the three lists the wrapper closes over.
Wrap(ps, func) ==
    [ enter      |-> gather_calls(ps, func, "enter"),
      on_success |-> gather_calls(ps, func, "on_success"),
      on_error   |-> gather_calls(ps, func, "on_error") ]

\* CallbackKey with the entry point's name made part of the key.
CallbackKey_PerEntryPoint(cb) == <<cb.func, cb.cls, cb.slot>>

\* CallbackKey with one key per (observer, entry point, callback slot).
CallbackKey_PerTriple(cb) == <<cb.plugin, cb.func, cb.slot>>

\* run_once's _callback_key: func.__qualname__ of the bound method.
CallbackKey(cb) == <<cb.cls, cb.slot>>

\* ----------------------------------------------------------------- frames

\* A frame is one execution of the wrapper of _Plug.__call__:
\*   self the validator whose entry point func was called with args
\*   pc   "enter", "on_success", "on_error": inside that run_callbacks loop;
\*        "call": enter(...) is over, func is about to be called;
\*        "target": func is executing;  "done": the wrapper has returned or raised
\*   i    index of the loop's current callback
\*   cb   "loop": at the head of the for loop;  "add": run_once found the key
\*        absent and is about to add it;  "body": the callback is executing
\*   log  what this frame called so far, in order
NoOutcome == [kind |-> None, val |-> None]

NewFrame(self, func, input) ==
    [ self |-> self, func |-> func, args |-> input, pc |-> "enter", i |-> 1, cb |-> "loop",
      result |-> None, error |-> None, out |-> NoOutcome, log |-> << >> ]

Depth(t) == Len(stack[t])

Top(t) == stack[t][Depth(t)]

\* The callback list of the loop frame f is in.
Callbacks(f) == wrapped[f.func][f.pc]

Current(f) == Callbacks(f)[f.i]

\* The callback a log entry of frame f is about.
EntryCallback(f, e) == wrapped[f.func][e.op][e.n]

EntryKey(f, e) == CallbackKey(EntryCallback(f, e))

InLoop(f) == f.pc \in Slots

Entry(op, n, arg, st) == [op |-> op, n |-> n, arg |-> arg, st |-> st, exc |-> None, re |-> FALSE]

Append1(f, e) == [f EXCEPT !.log = Append(@, e)]

\* The frame with its last log entry closed as st (and the exception raised).
CloseLast(f, st, exc) ==
    [f EXCEPT !.log[Len(f.log)].st = st, !.log[Len(f.log)].exc = exc]

Return(f, val) == [f EXCEPT !.pc = "done", !.cb = "loop", !.out = [kind |-> "return", val |-> val]]

Raise(f, exc) == [f EXCEPT !.pc = "done", !.cb = "loop", !.out = [kind |-> "raise", val |-> exc]]

\* ---------------------------------------------------------------- wrapper

\* IsValidationError for an except clause that catches every exception.
IsValidationError_Any(exc) == TRUE

\* wrapper, line 63: except ValidationError.
IsValidationError(exc) == exc = ValidationError

\* CallbackArg with every aggregate callback called with the wrapper's arguments.
CallbackArg_AlwaysArgs(f) == f.args

\* wrapper, line 60: what enter/on_success/on_error are called with.
CallbackArg(f) ==
    CASE f.pc = "enter"      -> f.args
      [] f.pc = "on_success" -> f.result
      [] f.pc = "on_error"   -> f.error

\* AfterLoop with on_success(result) moved before the call of func.
AfterLoop_SuccessFirst(f) ==
    CASE f.pc = "enter"      -> [f EXCEPT !.pc = "on_success", !.i = 1]
      [] f.pc = "on_success" -> IF f.result = None THEN [f EXCEPT !.pc = "call"]
                                ELSE Return(f, f.result)
      [] f.pc = "on_error"   -> Raise(f, f.error)

\* AfterLoop without the operand of the return that ends the else clause.
AfterLoop_ReturnsNone(f) ==
    CASE f.pc = "enter"      -> [f EXCEPT !.pc = "call"]
      [] f.pc = "on_success" -> Return(f, None)
      [] f.pc = "on_error"   -> Raise(f, f.error)

\* AfterLoop without the bare raise that ends the except clause.
AfterLoop_NoReraise(f) ==
    CASE f.pc = "enter"      -> [f EXCEPT !.pc = "call"]
      [] f.pc = "on_success" -> Return(f, f.result)
      [] f.pc = "on_error"   -> Return(f, None)

\* wrapper, lines 60-68: where the wrapper goes when a run_callbacks loop ends.
AfterLoop(f) ==
    CASE f.pc = "enter"      -> [f EXCEPT !.pc = "call"]
      [] f.pc = "on_success" -> Return(f, f.result)
      [] f.pc = "on_error"   -> Raise(f, f.error)

\* AfterTarget with an except clause that swallows what is not a validation
\* error.
AfterTarget_SwallowsOther(f, o) ==
    IF o.kind = "return"
    THEN [f EXCEPT !.pc = "on_success", !.i = 1, !.result = o.val]
    ELSE IF IsValidationError(o.val)
         THEN [f EXCEPT !.pc = "on_error", !.i = 1, !.error = o.val]
         ELSE Return(f, None)

\* wrapper, lines 61-67: where the wrapper goes with func's outcome.
AfterTarget(f, o) ==
    IF o.kind = "return"
    THEN [f EXCEPT !.pc = "on_success", !.i = 1, !.result = o.val]
    ELSE IF IsValidationError(o.val)
         THEN [f EXCEPT !.pc = "on_error", !.i = 1, !.error = o.val]
         ELSE Raise(f, o.val)

\* Suppressed for contextlib.suppress(Exception).
Suppressed_Any(exc) == TRUE

\* run_callbacks, line 87: contextlib.suppress(NotImplementedError).
Suppressed(exc) == exc = "NotImplementedError"

\* InFlight for a run_once without its membership test.
InFlight_Never(S, key) == FALSE

\* run_once, line 115: the membership test.
InFlight(S, key) == key \in S

\* RunOnceSkip with the key removed when the scope of a skipped callback exits.
RunOnceSkip_Removes(S, key) == S \ {key}

\* run_once, lines 116-117, resumed after the with body skipped the callback:
\* the generator returns and leaves the set alone.
RunOnceSkip(S, key) == S

\* run_once, lines 120-121, resumed after the with body ended normally.
RunOnceExit(S, key) == S \ {key}

\* run_once, line 120, resumed by the with body's exception: the generator has
\* no try/finally, the exception is thrown in at the yield and line 121 is
\* never reached.
RunOnceThrow(S, key) == S

\* ---------------------------------------------------------------- actions

SetTop(t, f) == [stack EXCEPT ![t] = [@ EXCEPT ![Len(@)] = f]]

\* Frame e, with its running callback marked as re-entered when it holds key.
MarkReentered(e, key) ==
    IF e.cb = "body" /\ CallbackKey(Current(e)) = key
    THEN [e EXCEPT !.log[Len(e.log)].re = TRUE]
    ELSE e

\* A caller invokes self.validate_json / self.validate_python.
Call(t, self, func, input) ==
    /\ t \in threads /\ self \in validators
    /\ Depth(t) = 0
    /\ ncalls < MaxCalls
    /\ ncalls' = ncalls + 1
    /\ stack' = [stack EXCEPT ![t] = << NewFrame(self, func, input) >>]
    /\ UNCHANGED <<plugins, wrapped, in_call, threads, validators, prevNI, prevRe>>

\* A running callback invokes a wrapped entry point of a validator.
NestedCall(t, self, func, input) ==
    /\ t \in threads /\ self \in validators
    /\ Depth(t) >= 1 /\ Depth(t) < MaxDepth
    /\ Top(t).cb = "body"
    /\ ncalls < MaxCalls
    /\ ncalls' = ncalls + 1
    /\ stack' = [stack EXCEPT ![t] = Append(@, NewFrame(self, func, input))]
    /\ UNCHANGED <<plugins, wrapped, in_call, threads, validators, prevNI, prevRe>>

\* run_once, lines 113-117, and run_callbacks, lines 88-89: the membership
\* test; a key found in _in_call yields None and the callback is skipped.
RunOnceTest(t) ==
    /\ t \in threads /\ Depth(t) >= 1
    /\ LET f == Top(t) IN
        /\ InLoop(f) /\ f.cb = "loop" /\ f.i <= Len(Callbacks(f))
        /\ LET key == CallbackKey(Current(f)) IN
            IF InFlight(in_call, key)
            THEN LET g == [Append1(f, Entry(f.pc, f.i, None, "skipped")) EXCEPT !.i = f.i + 1]
                 IN  /\ stack' = [stack EXCEPT ![t] =
                            [j \in DOMAIN @ |-> IF j = Len(@) THEN g ELSE MarkReentered(@[j], key)]]
                     /\ in_call' = RunOnceSkip(in_call, key)
            ELSE /\ stack' = SetTop(t, [f EXCEPT !.cb = "add"])
                 /\ in_call' = in_call
    /\ UNCHANGED <<plugins, wrapped, threads, validators, ncalls, prevNI, prevRe>>

\* run_once, lines 119-120, and run_callbacks, line 90: the key is added and
\* the callback is invoked.
RunOnceAdd(t) ==
    /\ t \in threads /\ Depth(t) >= 1
    /\ LET f == Top(t) IN
        /\ InLoop(f) /\ f.cb = "add"
        /\ in_call' = in_call \cup {CallbackKey(Current(f))}
        /\ stack' = SetTop(t, [Append1(f, Entry(f.pc, f.i, CallbackArg(f), "running"))
                                  EXCEPT !.cb = "body"])
    /\ UNCHANGED <<plugins, wrapped, threads, validators, ncalls, prevNI, prevRe>>

\* The callback returns; run_once resumes at line 121 and removes the key
\* (set.remove raises KeyError when the key is gone).
CallbackReturn(t) ==
    /\ t \in threads /\ Depth(t) >= 1
    /\ LET f == Top(t)
           key == CallbackKey(Current(f))
       IN
        /\ InLoop(f) /\ f.cb = "body"
        /\ in_call' = RunOnceExit(in_call, key)
        /\ stack' = SetTop(t,
              IF key \in in_call
              THEN [CloseLast(f, "returned", None) EXCEPT !.cb = "loop", !.i = f.i + 1]
              ELSE Raise(CloseLast(f, "returned", None), "KeyError"))
    /\ UNCHANGED <<plugins, wrapped, threads, validators, ncalls, prevNI, prevRe>>

\* The callback raises: the exception passes through run_once and reaches
\* contextlib.suppress, which swallows it or lets it leave the wrapper.
CallbackRaise(t, exc) ==
    /\ t \in threads /\ Depth(t) >= 1
    /\ LET f == Top(t)
           key == CallbackKey(Current(f))
       IN
        /\ InLoop(f) /\ f.cb = "body"
        /\ in_call' = RunOnceThrow(in_call, key)
        /\ stack' = SetTop(t,
              IF Suppressed(exc)
              THEN [CloseLast(f, "raised", exc) EXCEPT !.cb = "loop", !.i = f.i + 1]
              ELSE Raise(CloseLast(f, "raised", exc), exc))
    /\ UNCHANGED <<plugins, wrapped, threads, validators, ncalls, prevNI, prevRe>>

\* The for loop of run_callbacks is exhausted.
LoopEnd(t) ==
    /\ t \in threads /\ Depth(t) >= 1
    /\ LET f == Top(t) IN
        /\ InLoop(f) /\ f.cb = "loop" /\ f.i > Len(Callbacks(f))
        /\ stack' = SetTop(t, AfterLoop(f))
    /\ UNCHANGED <<plugins, wrapped, in_call, threads, validators, ncalls, prevNI, prevRe>>

\* wrapper, line 62: func is called.
TargetCall(t) ==
    /\ t \in threads /\ Depth(t) >= 1
    /\ LET f == Top(t) IN
        /\ f.pc = "call"
        /\ stack' = SetTop(t, [Append1(f, Entry("target", 0, f.args, "running"))
                                  EXCEPT !.pc = "target"])
    /\ UNCHANGED <<plugins, wrapped, in_call, threads, validators, ncalls, prevNI, prevRe>>

\* wrapper, lines 62-67: func returns or raises.
TargetEnd(t) ==
    /\ t \in threads /\ Depth(t) >= 1
    /\ LET f == Top(t)
           o == Engine(f.func, f.args)
       IN
        /\ f.pc = "target"
        /\ stack' = SetTop(t, AfterTarget(
              CloseLast(f, IF o.kind = "return" THEN "returned" ELSE "raised",
                           IF o.kind = "return" THEN None ELSE o.val), o))
    /\ UNCHANGED <<plugins, wrapped, in_call, threads, validators, ncalls, prevNI, prevRe>>

\* A nested wrapped call is over: control is back in the callback that made it.
NestedEnd(t) ==
    /\ t \in threads /\ Depth(t) >= 2
    /\ Top(t).pc = "done"
    /\ stack' = [stack EXCEPT ![t] = SubSeq(@, 1, Len(@) - 1)]
    /\ UNCHANGED <<plugins, wrapped, in_call, threads, validators, ncalls, prevNI, prevRe>>

\* A top-level wrapped call is over: the caller has its value or exception.
Finish(t) ==
    /\ t \in threads /\ Depth(t) = 1
    /\ LET f == Top(t) IN
        /\ f.pc = "done"
        /\ prevNI' = { EntryKey(f, f.log[j]) : j \in
                        { k \in DOMAIN f.log : f.log[k].exc = "NotImplementedError" } }
        /\ prevRe' = { EntryKey(f, f.log[j]) : j \in { k \in DOMAIN f.log : f.log[k].re } }
    /\ stack' = [stack EXCEPT ![t] = << >>]
    /\ UNCHANGED <<plugins, wrapped, in_call, threads, validators, ncalls>>

\* PluggableSchemaValidator.__init__, for every validator: the _Plug is built
\* over the installed plugins and both entry points are wrapped; nothing is in
\* flight.
InitWith(ts, vs) ==
    /\ plugins \in Installed
    /\ wrapped = [func \in Funcs |-> Wrap(plugins, func)]
    /\ in_call = {}
    /\ threads = ts
    /\ validators = vs
    /\ stack = [t \in ThreadIds |-> << >>]
    /\ ncalls = 0
    /\ prevNI = {}
    /\ prevRe = {}

\* One validator, called from one thread.
Init == InitWith({1}, {"v1"})

\* The plugin configurations of the two-validator specification: observers
\* whose step class is the same for both entry points.
InstalledValidators == { <<"A", "B">>, <<"C", "D">> }

\* Two validators, called from one thread.
InitValidators == InitWith({1}, ValidatorIds) /\ plugins \in InstalledValidators

\* The plugin configurations of the two-thread specification: no observer, and
\* the single observer E, whose validate_python step has one callback.
InstalledThreads == { << >>, <<"E">> }

\* One validator, called from two threads.
InitThreads == InitWith(ThreadIds, {"v1"}) /\ plugins \in InstalledThreads

Next ==
    \E t \in ThreadIds :
        \/ \E self \in ValidatorIds, func \in Funcs, input \in Inputs :
              Call(t, self, func, input)
        \/ \E self \in ValidatorIds, func \in Funcs, input \in Inputs :
              NestedCall(t, self, func, input)
        \/ RunOnceTest(t)
        \/ RunOnceAdd(t)
        \/ CallbackReturn(t)
        \/ \E exc \in CallbackExceptions : CallbackRaise(t, exc)
        \/ LoopEnd(t)
        \/ TargetCall(t)
        \/ TargetEnd(t)
        \/ NestedEnd(t)
        \/ Finish(t)

Spec == Init /\ [][Next]_vars

\* One thread runs each wrapped call, and each callback body, to its end.
SpecLive == Spec /\ WF_vars(Next)

SpecValidators == InitValidators /\ [][Next]_vars

SpecThreads == InitThreads /\ [][Next]_vars

\* ------------------------------------------------- reading frames and logs

\* Every frame of every wrapped call in progress or just finished.
Frames == UNION { { stack[t][j] : j \in DOMAIN stack[t] } : t \in ThreadIds }

IsCallbackEntry(e) == e.op \in Slots

\* The entry is an invocation of a callback (not a skip by the guard).
Invoked(e) == IsCallbackEntry(e) /\ e.st # "skipped"

\* The entry is a callback that raised something other than NotImplementedError.
Failed(e) == IsCallbackEntry(e) /\ e.st = "raised" /\ e.exc # "NotImplementedError"

\* Frame f reached callback n of list op: invoked it or skipped it.
Reached(f, op, n) == \E k \in DOMAIN f.log : f.log[k].op = op /\ f.log[k].n = n

\* Some callback before callback n of list op raised and ended the loop.
FailedBefore(f, op, n) ==
    \E k \in DOMAIN f.log : f.log[k].op = op /\ f.log[k].n < n /\ Failed(f.log[k])

TargetReturned(f) == \E k \in DOMAIN f.log : f.log[k].op = "target" /\ f.log[k].st = "returned"

TargetRaisedValidationError(f) ==
    \E k \in DOMAIN f.log :
        f.log[k].op = "target" /\ f.log[k].st = "raised" /\ f.log[k].exc = ValidationError

TargetRaisedOther(f) ==
    \E k \in DOMAIN f.log :
        f.log[k].op = "target" /\ f.log[k].st = "raised" /\ f.log[k].exc # ValidationError

Done(f) == f.pc = "done"

\* ------------------------------------------------------------------- C1

\* C1: in the log of every wrapped call, only enter callbacks come before the
\* target and each of them has finished when the target is invoked; an
\* on_success/on_error callback is invoked only after the target of that call
\* has completed, and no enter callback comes after the target.
C1_Ordering ==
    \A f \in Frames : \A k \in DOMAIN f.log :
        /\ f.log[k].op = "target" =>
              \A j \in 1..(k - 1) : f.log[j].op = "enter" /\ f.log[j].st # "running"
        /\ f.log[k].op \in {"on_success", "on_error"} =>
              \E j \in 1..(k - 1) : f.log[j].op = "target" /\ f.log[j].st # "running"
        /\ f.log[k].op = "enter" => \A j \in 1..(k - 1) : f.log[j].op = "enter"

\* A call that invoked an enter callback, its target and an on_success callback.
C1_Witness ==
    \E f \in Frames :
        /\ \E k \in DOMAIN f.log : f.log[k].op = "enter" /\ Invoked(f.log[k])
        /\ \E k \in DOMAIN f.log : f.log[k].op = "target"
        /\ \E k \in DOMAIN f.log : f.log[k].op = "on_success" /\ Invoked(f.log[k])

\* ------------------------------------------------------------------- C2

\* The callback received exactly the object the wrapper holds for its slot.
OnErrorEntriesGetError(f) ==
    \A k \in DOMAIN f.log :
        (f.log[k].op = "on_error" /\ Invoked(f.log[k])) => f.log[k].arg = ValidationError

\* No callback of an observer whose step defines only on_success is in the log.
NoOnlySuccessObserver(f) ==
    \A k \in DOMAIN f.log :
        IsCallbackEntry(f.log[k]) => StepSlots[EntryCallback(f, f.log[k]).cls] # {"on_success"}

NoEntryOf(f, op) == \A k \in DOMAIN f.log : f.log[k].op # op

\* C2 as stated: when the target of a wrapped call raised a validation error,
\* by the end of the call every resolved on_error callback was invoked with that
\* error or skipped by the guard, no on_success callback was invoked, and no
\* observer that implements only on_success was invoked.
C2_Original ==
    \A f \in Frames : TargetRaisedValidationError(f) =>
        /\ Done(f) => \A n \in DOMAIN wrapped[f.func].on_error : Reached(f, "on_error", n)
        /\ OnErrorEntriesGetError(f)
        /\ NoEntryOf(f, "on_success")
        /\ NoOnlySuccessObserver(f)

\* C2 amended: the same, except that an on_error callback that raises anything
\* other than NotImplementedError ends the loop, so the callbacks after it are
\* not invoked.
C2_Amended ==
    \A f \in Frames : TargetRaisedValidationError(f) =>
        /\ Done(f) => \A n \in DOMAIN wrapped[f.func].on_error :
                          Reached(f, "on_error", n) \/ FailedBefore(f, "on_error", n)
        /\ OnErrorEntriesGetError(f)
        /\ NoEntryOf(f, "on_success")
        /\ NoOnlySuccessObserver(f)

\* A finished call whose target raised a validation error and in which an
\* on_error callback was invoked, on an entry point for which an observer that
\* implements only on_success is resolved.
C2_Witness ==
    \E f \in Frames :
        /\ Done(f) /\ TargetRaisedValidationError(f)
        /\ \E k \in DOMAIN f.log : f.log[k].op = "on_error" /\ Invoked(f.log[k])
        /\ \E n \in DOMAIN wrapped[f.func].on_success :
              StepSlots[wrapped[f.func].on_success[n].cls] = {"on_success"}

\* ------------------------------------------------------------------- C3

OnSuccessEntriesGetResult(f) ==
    \A k \in DOMAIN f.log :
        (f.log[k].op = "on_success" /\ Invoked(f.log[k]))
            => f.log[k].arg = Engine(f.func, f.args).val

NoOnlyErrorObserver(f) ==
    \A k \in DOMAIN f.log :
        IsCallbackEntry(f.log[k]) => StepSlots[EntryCallback(f, f.log[k]).cls] # {"on_error"}

NoCallbackRaised(f) == \A k \in DOMAIN f.log : IsCallbackEntry(f.log[k]) => f.log[k].exc = None

\* C3 as stated: when the target of a wrapped call returned, by the end of the
\* call every resolved on_success callback was invoked with the returned value
\* or skipped by the guard, no on_error callback was invoked, no observer that
\* implements only on_error was invoked, and a call in which no callback raised
\* returns the target's value.
C3_Original ==
    \A f \in Frames : TargetReturned(f) =>
        /\ Done(f) => \A n \in DOMAIN wrapped[f.func].on_success : Reached(f, "on_success", n)
        /\ OnSuccessEntriesGetResult(f)
        /\ NoEntryOf(f, "on_error")
        /\ NoOnlyErrorObserver(f)
        /\ (Done(f) /\ NoCallbackRaised(f)) =>
              f.out = [kind |-> "return", val |-> Engine(f.func, f.args).val]

\* C3 amended: the same, except that an on_success callback that raises anything
\* other than NotImplementedError ends the loop, so the callbacks after it are
\* not invoked.
C3_Amended ==
    \A f \in Frames : TargetReturned(f) =>
        /\ Done(f) => \A n \in DOMAIN wrapped[f.func].on_success :
                          Reached(f, "on_success", n) \/ FailedBefore(f, "on_success", n)
        /\ OnSuccessEntriesGetResult(f)
        /\ NoEntryOf(f, "on_error")
        /\ NoOnlyErrorObserver(f)
        /\ (Done(f) /\ NoCallbackRaised(f)) =>
              f.out = [kind |-> "return", val |-> Engine(f.func, f.args).val]

\* A finished call whose target returned, in which an on_success callback was
\* invoked and no callback raised, on an entry point for which an observer that
\* implements only on_error is resolved; the call returned.
C3_Witness ==
    \E f \in Frames :
        /\ Done(f) /\ TargetReturned(f) /\ NoCallbackRaised(f)
        /\ \E k \in DOMAIN f.log : f.log[k].op = "on_success" /\ Invoked(f.log[k])
        /\ \E n \in DOMAIN wrapped[f.func].on_error :
              StepSlots[wrapped[f.func].on_error[n].cls] = {"on_error"}
        /\ f.out.kind = "return"

\* ------------------------------------------------------------------- C4

\* C4 as stated: every wrapped call whose target raised a validation error ends
\* by raising that validation error.
C4_Original ==
    \A f \in Frames : (Done(f) /\ TargetRaisedValidationError(f)) =>
        f.out = [kind |-> "raise", val |-> ValidationError]

\* C4 amended: a wrapped call whose target raised a validation error never
\* returns normally; it ends by raising that validation error, after every
\* on_error callback was invoked or skipped, unless an on_error callback raised
\* something other than NotImplementedError, and then it ends by raising that
\* callback's exception.
C4_Amended ==
    \A f \in Frames : (Done(f) /\ TargetRaisedValidationError(f)) =>
        /\ f.out.kind = "raise"
        /\ IF \E k \in DOMAIN f.log : f.log[k].op = "on_error" /\ Failed(f.log[k])
           THEN LET last == f.log[Len(f.log)]
                IN  last.op = "on_error" /\ Failed(last) /\ f.out.val = last.exc
           ELSE /\ f.out.val = ValidationError
                /\ \A n \in DOMAIN wrapped[f.func].on_error : Reached(f, "on_error", n)

\* A finished call whose target raised a validation error, one on_error callback
\* of which raised NotImplementedError, and which re-raised the validation error.
C4_Witness ==
    \E f \in Frames :
        /\ Done(f) /\ TargetRaisedValidationError(f)
        /\ \E k \in DOMAIN f.log :
              f.log[k].op = "on_error" /\ f.log[k].exc = "NotImplementedError"
        /\ f.out = [kind |-> "raise", val |-> ValidationError]

\* ------------------------------------------------------------------- C5

\* The keys of the callbacks that are executing now.
Executing == { CallbackKey(Current(f)) : f \in { g \in Frames : InLoop(g) /\ g.cb = "body" } }

\* C5: a key is in _in_call exactly when a callback with that key is executing
\* (so _in_call is empty when no wrapped call is in progress).
C5_InFlightIffExecuting == in_call = Executing

\* ------------------------------------------------------------------- C6

\* C6: while a callback is executing, no nested call executes a callback with
\* the same key; and a callback that was re-entered during the previous
\* top-level call, which is over, is not skipped by a top-level call.
C6_Reentrancy ==
    \A t \in ThreadIds :
        /\ \A j, k \in DOMAIN stack[t] :
              (j < k /\ stack[t][j].cb = "body" /\ stack[t][k].cb = "body")
                  => CallbackKey(Current(stack[t][j])) # CallbackKey(Current(stack[t][k]))
        /\ Depth(t) >= 1 =>
              \A k \in DOMAIN stack[t][1].log :
                  LET e == stack[t][1].log[k]
                  IN  e.st = "skipped" => EntryKey(stack[t][1], e) \notin prevRe

\* ------------------------------------------------------------------- C7

\* C7: a callback that raised NotImplementedError during the previous top-level
\* call is not skipped by the next top-level call.
C7_NotImplementedNotPermanent ==
    \A t \in ThreadIds : Depth(t) >= 1 =>
        \A k \in DOMAIN stack[t][1].log :
            LET e == stack[t][1].log[k]
            IN  e.st = "skipped" => EntryKey(stack[t][1], e) \notin prevNI

\* ------------------------------------------------------------------- C8

\* A callback with this key is executing in a frame that encloses frame d of t.
HeldByEnclosing(t, d, key) ==
    \E j \in 1..(d - 1) :
        stack[t][j].cb = "body" /\ CallbackKey(Current(stack[t][j])) = key

EnterRaisedNotImplemented(f) ==
    \E k \in DOMAIN f.log : f.log[k].op = "enter" /\ f.log[k].exc = "NotImplementedError"

\* C8: no wrapped call ends by raising NotImplementedError; after an enter
\* callback raised NotImplementedError, the enter callbacks after it are invoked
\* (none is skipped, unless an enclosing call is executing it); and the call,
\* when no callback raises anything else, invokes the target and runs the
\* on_success or on_error callbacks that the target's outcome selects.
C8_EnterNotImplemented ==
    \A t \in ThreadIds : \A d \in DOMAIN stack[t] :
        LET f == stack[t][d] IN
        /\ f.out # [kind |-> "raise", val |-> "NotImplementedError"]
        /\ \A j, k \in DOMAIN f.log :
              ( /\ j < k
                /\ f.log[j].op = "enter" /\ f.log[j].exc = "NotImplementedError"
                /\ f.log[k].op = "enter" /\ f.log[k].st = "skipped" )
                  => HeldByEnclosing(t, d, EntryKey(f, f.log[k]))
        /\ ( /\ Done(f) /\ EnterRaisedNotImplemented(f)
             /\ ~ \E k \in DOMAIN f.log : Failed(f.log[k]) )
              => /\ \A n \in DOMAIN wrapped[f.func].enter : Reached(f, "enter", n)
                 /\ ~ NoEntryOf(f, "target")
                 /\ TargetReturned(f) =>
                       \A n \in DOMAIN wrapped[f.func].on_success : Reached(f, "on_success", n)
                 /\ TargetRaisedValidationError(f) =>
                       \A n \in DOMAIN wrapped[f.func].on_error : Reached(f, "on_error", n)

\* ------------------------------------------------------------------- C9

\* C9: a callback that raised anything other than NotImplementedError is the
\* last thing its wrapped call did (no later callback, no target, no other
\* loop), and the call ended by raising that exception.
C9_FailFast ==
    \A f \in Frames : \A k \in DOMAIN f.log :
        Failed(f.log[k]) =>
            /\ k = Len(f.log)
            /\ Done(f)
            /\ f.out = [kind |-> "raise", val |-> f.log[k].exc]

\* A finished call whose first enter callback raised RuntimeError while a second
\* enter callback was resolved: the call did nothing more and raised RuntimeError.
C9_Witness ==
    \E f \in Frames :
        /\ Done(f)
        /\ Len(wrapped[f.func].enter) >= 2
        /\ Len(f.log) = 1 /\ f.log[1].op = "enter" /\ f.log[1].exc = "RuntimeError"
        /\ f.out = [kind |-> "raise", val |-> "RuntimeError"]

\* ------------------------------------------------------------------ C10

\* C10: when the target raised anything but a validation error, the call of the
\* target is the last thing the wrapped call did (no on_error and no on_success
\* callback was invoked), and the call ended by raising that exception.
C10_OtherErrorPropagates ==
    \A f \in Frames : \A k \in DOMAIN f.log :
        (f.log[k].op = "target" /\ f.log[k].st = "raised" /\ f.log[k].exc # ValidationError)
            => /\ k = Len(f.log)
               /\ Done(f)
               /\ f.out = [kind |-> "raise", val |-> f.log[k].exc]

\* A finished call whose target raised EngineError, on an entry point with
\* on_error and on_success callbacks resolved.
C10_Witness ==
    \E f \in Frames :
        /\ Done(f) /\ TargetRaisedOther(f)
        /\ wrapped[f.func].on_error # << >>
        /\ wrapped[f.func].on_success # << >>
        /\ f.out = [kind |-> "raise", val |-> "EngineError"]

\* ------------------------------------------------------------------ C11

\* Every callback the wrappers close over.
Resolved ==
    UNION { UNION { { wrapped[func][slot][n] : n \in DOMAIN wrapped[func][slot] }
                    : slot \in Slots } : func \in Funcs }

\* The (observer, entry point, callback slot) a callback was resolved for.
Triple(cb) == <<cb.plugin, cb.func, cb.slot>>

\* The function object behind a bound method: the slot of the step class.
Implementation(cb) == <<cb.cls, cb.slot>>

Contributes(plugin, func, slot) ==
    /\ PluginAttrs[plugin][EVENTS[func]] \in StepTypes
    /\ slot \in StepSlots[PluginAttrs[plugin][EVENTS[func]]]

\* The loop over list op of frame f has begun.
PhaseBegun(f, op) ==
    CASE op = "enter"      -> TRUE
      [] op = "on_success" -> TargetReturned(f)
      [] op = "on_error"   -> TargetRaisedValidationError(f)

C13_TransparentWithoutObservers ==
    plugins = << >> =>
        /\ in_call = {}
        /\ \A f \in Frames :
              /\ Len(f.log) <= 1
              /\ \A k \in DOMAIN f.log : f.log[k].op = "target" /\ f.log[k].arg = f.args
              /\ Done(f) => Len(f.log) = 1 /\ f.out = Engine(f.func, f.args)

\* With no observer installed, a wrapped call has ended with the exception,
\* not a validation error, that its target raised.
C13_Witness ==
    /\ plugins = << >>
    /\ \E f \in Frames :
          /\ Done(f) /\ TargetRaisedOther(f)
          /\ f.out = [kind |-> "raise", val |-> "EngineError"]

\* ------------------------------------------------------------------ C14

\* Thread t takes the step in which run_once finds the key of the current
\* callback in _in_call and the callback is skipped.
SkipStep(t) ==
    /\ Depth(t) >= 1 /\ Len(stack'[t]) = Depth(t)
    /\ Len(stack'[t][Depth(t)].log) = Len(Top(t).log) + 1
    /\ stack'[t][Depth(t)].log[Len(Top(t).log) + 1].st = "skipped"

\* While a wrapped call nested in a running callback is in progress, the key
\* of that callback is in _in_call, and every attempt of the nested call on that
\* key was skipped.
OuterHoldsKey ==
    \A t \in ThreadIds : \A j, d \in DOMAIN stack[t] :
        (j < d /\ stack[t][j].cb = "body") =>
            /\ CallbackKey(Current(stack[t][j])) \in in_call
            /\ \A k \in DOMAIN stack[t][d].log :
                  ( /\ IsCallbackEntry(stack[t][d].log[k])
                    /\ EntryKey(stack[t][d], stack[t][d].log[k])
                          = CallbackKey(Current(stack[t][j])) )
                      => stack[t][d].log[k].st = "skipped"

\* C14: the step that skips a callback leaves _in_call as it was, with the key
\* in it; so while a nested call is in progress the enclosing callback's key
\* stays in _in_call and every attempt of the nested call on it is skipped.
C14_SkipLeavesGuard ==
    /\ []OuterHoldsKey
    /\ [][\A t \in ThreadIds : SkipStep(t) =>
              /\ in_call' = in_call
              /\ CallbackKey(Current(Top(t))) \in in_call']_vars

\* A nested call has skipped two callbacks on the key of the callback that the
\* enclosing call is executing, and the key is in _in_call.
C14_Witness ==
    \E t \in ThreadIds : \E j, d \in DOMAIN stack[t] :
        /\ j < d /\ stack[t][j].cb = "body"
        /\ CallbackKey(Current(stack[t][j])) \in in_call
        /\ \E k1, k2 \in DOMAIN stack[t][d].log :
              /\ k1 < k2
              /\ stack[t][d].log[k1].st = "skipped" /\ stack[t][d].log[k2].st = "skipped"
              /\ EntryKey(stack[t][d], stack[t][d].log[k1]) = CallbackKey(Current(stack[t][j]))
              /\ EntryKey(stack[t][d], stack[t][d].log[k2]) = CallbackKey(Current(stack[t][j]))

\* ------------------------------------------------------------------ C15

\* C15: while a callback is executing, every attempt of a nested wrapped call
\* on a callback with the same implementation is skipped, whichever entry point
\* and whichever validator the nested call was made through.
C15_ReentryPerImplementation ==
    \A t \in ThreadIds : \A j, d \in DOMAIN stack[t] :
        (j < d /\ stack[t][j].cb = "body") =>
            \A k \in DOMAIN stack[t][d].log :
                ( /\ IsCallbackEntry(stack[t][d].log[k])
                  /\ Implementation(EntryCallback(stack[t][d], stack[t][d].log[k]))
                        = Implementation(Current(stack[t][j])) )
                    => stack[t][d].log[k].st = "skipped"

\* A callback is executing in a call of one validator's entry point, and a
\* nested call of the other entry point of the other validator has skipped a
\* callback with the same implementation.
C15_Witness ==
    \E t \in ThreadIds : \E j, d \in DOMAIN stack[t] :
        /\ j < d /\ stack[t][j].cb = "body"
        /\ stack[t][d].func # stack[t][j].func
        /\ stack[t][d].self # stack[t][j].self
        /\ \E k \in DOMAIN stack[t][d].log :
              /\ stack[t][d].log[k].st = "skipped"
              /\ Implementation(EntryCallback(stack[t][d], stack[t][d].log[k]))
                    = Implementation(Current(stack[t][j]))

\* ------------------------------------------------------------------ C16

\* C16: the callbacks of one observer invoked during one wrapped call are
\* methods of one and the same step instance, and no step instance has
\* callbacks invoked by two wrapped calls.
C16_StepPerCall ==
    /\ \A f \in Frames : \A k1, k2 \in DOMAIN f.log :
          ( /\ Invoked(f.log[k1]) /\ Invoked(f.log[k2])
            /\ EntryCallback(f, f.log[k1]).plugin = EntryCallback(f, f.log[k2]).plugin )
              => StepInstance(f.self, EntryCallback(f, f.log[k1]))
                    = StepInstance(f.self, EntryCallback(f, f.log[k2]))
    /\ \A t1, t2 \in ThreadIds : \A d1 \in DOMAIN stack[t1] : \A d2 \in DOMAIN stack[t2] :
          <<t1, d1>> # <<t2, d2>> =>
              \A k1 \in DOMAIN stack[t1][d1].log : \A k2 \in DOMAIN stack[t2][d2].log :
                  (Invoked(stack[t1][d1].log[k1]) /\ Invoked(stack[t2][d2].log[k2])) =>
                      StepInstance(stack[t1][d1].self,
                                   EntryCallback(stack[t1][d1], stack[t1][d1].log[k1]))
                        # StepInstance(stack[t2][d2].self,
                                       EntryCallback(stack[t2][d2], stack[t2][d2].log[k2]))

\* ------------------------------------------------------------------ C17

\* The keys of all the callbacks the wrappers close over.
Keys == { CallbackKey(cb) : cb \in Resolved }

\* The frames of thread t in which a callback is executing.
ExecutingFrames(t) == { j \in DOMAIN stack[t] : stack[t][j].cb = "body" }

\* The callbacks executing in one call stack have different keys, so there are
\* never more of them than there are keys.
NestingBounded ==
    \A t \in ThreadIds :
        /\ \A j, d \in ExecutingFrames(t) :
              j # d => CallbackKey(Current(stack[t][j])) # CallbackKey(Current(stack[t][d]))
        /\ Cardinality(ExecutingFrames(t)) <= Cardinality(Keys)

\* No wrapped call is in progress.
Idle == \A t \in ThreadIds : stack[t] = << >>

C18_RunOnceConsistent ==
    /\ \A t1, t2 \in ThreadIds : \A d1 \in ExecutingFrames(t1) : \A d2 \in ExecutingFrames(t2) :
          <<t1, d1>> # <<t2, d2>> =>
              CallbackKey(Current(stack[t1][d1])) # CallbackKey(Current(stack[t2][d2]))
    /\ \A f \in Frames : f.out # [kind |-> "raise", val |-> "KeyError"]

\* ------------------------------------------------------------------ C19

\* C19: a callback is skipped only when an enclosing frame of the same call
\* stack is executing a callback with its key.
C19_SkipOnlyOnReentry ==
    \A t \in ThreadIds : \A d \in DOMAIN stack[t] : \A k \in DOMAIN stack[t][d].log :
        stack[t][d].log[k].st = "skipped"
            => HeldByEnclosing(t, d, EntryKey(stack[t][d], stack[t][d].log[k]))

====
